---- MODULE Spec2Model ----
(***************************************************************************)
(* State-machine model of the Flashcards component                         *)
(* (src/app/components/flashcards.tsx): the persistent set store kept in   *)
(* localStorage, the subject namer, the generation call and its merge,     *)
(* and the card-browsing handlers.                                         *)
(*                                                                         *)
(* Text is modelled as a sequence of one-character strings, so that the    *)
(* regular expressions of the source are computed on characters.           *)
(***************************************************************************)
EXTENDS Integers, Sequences, FiniteSets, TLC

(***************************************************************************)
(* Bounds of the model.                                                    *)
(***************************************************************************)
\* a new set is only requested while fewer than MaxSets sets are stored
MaxSets == 2
\* more cards are only requested while the session shows fewer than MaxCards,
\* and the service returns no more cards than make MaxCards in the session
MaxCards == 3

\* a new set is only requested while every numeric suffix that the request
\* can meet in the store is below MaxIndex
MaxIndex == 1

(***************************************************************************)
(* Characters and small text helpers.                                      *)
(***************************************************************************)
Digits == <<"0", "1", "2", "3", "4", "5", "6", "7", "8", "9">>

IsDigit(c) == \E d \in 1..10 : Digits[d] = c

DigitVal(c) == (CHOOSE d \in 1..10 : Digits[d] = c) - 1

\* the characters matched by \s in the texts of the model
Whitespace == {" ", "\n"}

\* null of the source, for a text-valued cell
Null == <<"null">>

\* null of the source, for the error cell
NoError == "null"

\* undefined of the source, for a text-valued property that an object read
\* from the store does not have
Undefined == <<"undefined">>

Slice(s, from, to) == IF to < from THEN <<>> ELSE SubSeq(s, from, to)

\* String.prototype.trim
RECURSIVE trimStart(_)
trimStart(s) ==
    IF s # <<>> /\ Head(s) \in Whitespace THEN trimStart(Tail(s)) ELSE s

RECURSIVE trimEnd(_)
trimEnd(s) ==
    IF s # <<>> /\ s[Len(s)] \in Whitespace
    THEN trimEnd(SubSeq(s, 1, Len(s) - 1))
    ELSE s

trim(s) == trimEnd(trimStart(s))

\* parseInt(s, 10) of a non-empty run of decimal digits
RECURSIVE parseInt(_)
parseInt(s) ==
    IF s = <<>> THEN 0
    ELSE parseInt(SubSeq(s, 1, Len(s) - 1)) * 10 + DigitVal(s[Len(s)])

\* the decimal text of a non-negative integer, as a template literal prints it
RECURSIVE numberToString(_)
numberToString(n) ==
    IF n < 10 THEN <<Digits[n + 1]>>
    ELSE numberToString(n \div 10) \o <<Digits[(n % 10) + 1]>>

(***************************************************************************)
(* parseFlashcards: /Q:\s*([\s\S]+?)\s*A:\s*([\s\S]+?)(?=Q:|$)/g           *)
(* Positions are 1-based; a position Len(text)+1 is the end of the text.   *)
(***************************************************************************)
\* the two-character literal lit stands at position i of text
LitAt(text, i, lit) ==
    /\ i >= 1
    /\ i + 1 <= Len(text)
    /\ text[i] = lit[1]
    /\ text[i + 1] = lit[2]

\* position reached by a greedy \s* started at position i
RECURSIVE SkipWs(_, _)
SkipWs(text, i) ==
    IF i <= Len(text) /\ text[i] \in Whitespace THEN SkipWs(text, i + 1) ELSE i

\* with group 1 ended before position e1, the rest \s*A:\s*(.+?)(?=Q:|$)
\* can match: A: follows the whitespace and something is left for group 2
RestMatches(text, e1) ==
    LET a == SkipWs(text, e1)
    IN  LitAt(text, a, <<"A", ":">>) /\ a + 2 <= Len(text)

\* first position of group 2 for the A: standing at position a: the greedy
\* \s* gives one character back when it has eaten the text to its end
Group2Start(text, a) ==
    LET w == SkipWs(text, a + 2)
    IN  IF w <= Len(text) THEN w ELSE w - 1

\* variant: group 2 runs to the end of the text
Group2End_toEnd(text, e) == Len(text) + 1

\* end (exclusive) of the lazy group 2 started at s2: the next Q: or the end
RECURSIVE Group2End(_, _)
Group2End(text, e) ==
    IF e > Len(text) \/ LitAt(text, e, <<"Q", ":">>) THEN e
    ELSE Group2End(text, e + 1)

\* ends (exclusive) that the lazy group 1 may take when it starts at s1
Group1Ends(text, s1) ==
    {e \in (s1 + 1)..(Len(text) + 1) : RestMatches(text, e)}

SetMin(S) == CHOOSE x \in S : \A y \in S : x <= y

NoMatch ==
    [matched |-> FALSE, question |-> <<>>, answer |-> <<>>, lastIndex |-> 0]

\* the match whose groups are text[s1..e1-1] and text[s2..e2-1]
MatchOf(text, s1, e1, s2, e2) ==
    [matched   |-> TRUE,
     question  |-> trim(Slice(text, s1, e1 - 1)),
     answer    |-> trim(Slice(text, s2, e2 - 1)),
     lastIndex |-> e2]

MatchGroup2(text, s1, e1, s2) ==
    MatchOf(text, s1, e1, s2, Group2End(text, s2 + 1))

MatchGroup1(text, s1, e1) ==
    MatchGroup2(text, s1, e1, Group2Start(text, SkipWs(text, e1)))

\* first position of group 1 after the Q: whose whitespace ends before k:
\* the greedy \s* first keeps all the whitespace, then gives it back one
\* character at a time; 0 when the expression does not match here
Group1Start(text, j0, k) ==
    IF Group1Ends(text, k) # {} THEN k
    ELSE IF k > j0 /\ RestMatches(text, k) THEN k - 1
    ELSE 0

\* the lazy group 1 takes the first end after which the rest matches
MatchFrom(text, s1) ==
    IF s1 = 0 THEN NoMatch
    ELSE MatchGroup1(text, s1, SetMin(Group1Ends(text, s1)))

\* the match of the expression anchored at position i, or NoMatch
MatchAt(text, i) ==
    IF ~LitAt(text, i, <<"Q", ":">>) THEN NoMatch
    ELSE MatchFrom(text, Group1Start(text, i + 2, SkipWs(text, i + 2)))

\* regex.exec from lastIndex on: the leftmost position at which it matches
RECURSIVE execFrom(_, _)
FirstMatch(text, i, m) == IF m.matched THEN m ELSE execFrom(text, i + 1)

execFrom(text, i) ==
    IF i > Len(text) THEN NoMatch
    ELSE FirstMatch(text, i, MatchAt(text, i))

\* the while loop of parseFlashcards
RECURSIVE parseFrom(_, _)
PushMatch(text, m) ==
    IF ~m.matched THEN <<>>
    ELSE <<[question |-> m.question, answer |-> m.answer]>>
         \o parseFrom(text, m.lastIndex)

parseFrom(text, i) == PushMatch(text, execFrom(text, i))

parseFlashcards(text) == parseFrom(text, 1)

\* question.split(/\s+/).filter(Boolean).length
\* the non-empty pieces between runs of whitespace, counted by their last
\* characters
wordCount(s) ==
    Cardinality({i \in 1..Len(s) :
                    /\ s[i] \notin Whitespace
                    /\ (i = Len(s) \/ s[i + 1] \in Whitespace)})

\* the number of words from which a question is dropped
WordLimit == 30

\* variant: a question of exactly WordLimit words is kept
keepsCard_atMost(card) == wordCount(card.question) <= WordLimit

keepsCard(card) == wordCount(card.question) < WordLimit

\* cards.filter(card => ... < 30)
RECURSIVE filterCards(_)
filterCards(cards) ==
    IF cards = <<>> THEN <<>>
    ELSE IF keepsCard(Head(cards))
         THEN <<Head(cards)>> \o filterCards(Tail(cards))
         ELSE filterCards(Tail(cards))

(***************************************************************************)
(* The persistent store: one localStorage item holding the serialized      *)
(* sequence of sets.  The item is absent or holds the text written by      *)
(* JSON.stringify, modelled as the tagged value it denotes.                *)
(***************************************************************************)
NoItem == [tag |-> "absent", val |-> <<>>]

\* an item holding text that JSON.parse rejects
BadText == [tag |-> "text", val |-> <<>>]

\* JSON.stringify(sets)
stringify(sets) == [tag |-> "json", val |-> sets]

\* [] when the item is absent (!raw) or JSON.parse throws (catch), else
\* whatever JSON.parse returns
getStoredSets(item) == IF item.tag = "json" THEN item.val ELSE <<>>

\* localStorage.setItem(STORAGE_KEY, JSON.stringify(sets))
saveStoredSets(sets) == stringify(sets)

(***************************************************************************)
(* getUniqueSubjectName: new RegExp(`^${escapeRegExp(base)}(?:\((\d+)\))?$`)*)
(***************************************************************************)
RegExpSpecial ==
    {".", "*", "+", "?", "^", "$", "{", "}", "(", ")", "|", "[", "]", "\\"}

\* every special character gets a backslash; the result is the sequence of
\* the pattern's atoms, <<c>> or <<"\\", c>>
escapeRegExp(str) ==
    [i \in 1..Len(str) |->
        IF str[i] \in RegExpSpecial THEN <<"\\", str[i]>> ELSE <<str[i]>>]

\* an atom of the escaped pattern matches the character c
AtomMatches(atom, c) ==
    \/ atom = <<"\\", c>>
    \/ atom = <<c>> /\ c \notin RegExpSpecial

\* set.subject.match(regex): matched, and the digits of group 1 (<<>> when
\* the optional group did not take part)
subjectMatch(base, subj) ==
    LET pat  == escapeRegExp(base)
        n    == Len(pat)
        pre  == /\ Len(subj) >= n
                /\ \A i \in 1..n : AtomMatches(pat[i], subj[i])
        rest == Slice(subj, n + 1, Len(subj))
        mid  == Slice(rest, 2, Len(rest) - 1)
    IN  IF pre /\ rest = <<>> THEN [matched |-> TRUE, group |-> <<>>]
        ELSE IF /\ pre
                /\ Len(rest) >= 3
                /\ rest[1] = "("
                /\ rest[Len(rest)] = ")"
                /\ \A i \in 1..Len(mid) : IsDigit(mid[i])
             THEN [matched |-> TRUE, group |-> mid]
             ELSE [matched |-> FALSE, group |-> <<>>]

\* the forEach of getUniqueSubjectName, from set i on
RECURSIVE scanSubjects(_, _, _, _)
scanSubjects(base, sets, i, acc) ==
    IF i > Len(sets) THEN acc
    ELSE
      LET m == subjectMatch(base, sets[i].subject)
          next ==
            IF ~m.matched THEN acc
            ELSE IF m.group # <<>>
                 THEN IF parseInt(m.group) > acc.maxIndex
                      THEN [acc EXCEPT !.maxIndex = parseInt(m.group)]
                      ELSE acc
                 ELSE [acc EXCEPT !.foundBase = TRUE]
      IN  scanSubjects(base, sets, i + 1, next)

scanAll(base, sets) ==
    scanSubjects(base, sets, 1, [maxIndex |-> -1, foundBase |-> FALSE])

\* variant: the base is returned whatever the store holds
getUniqueSubjectName_sameName(base, sets) == base

\* variant: the suffix does not look at the suffixes in the store
getUniqueSubjectName_noMax(base, sets) ==
    LET r == scanAll(base, sets)
    IN  IF ~r.foundBase THEN base
        ELSE base \o <<"(">> \o numberToString(0) \o <<")">>

\* variant: a suffix is given also when the base is not stored
getUniqueSubjectName_alwaysSuffix(base, sets) ==
    LET r == scanAll(base, sets)
    IN  base \o <<"(">> \o numberToString(r.maxIndex + 1) \o <<")">>

getUniqueSubjectName(base, sets) ==
    LET r == scanAll(base, sets)
    IN  IF ~r.foundBase THEN base
        ELSE base \o <<"(">> \o numberToString(r.maxIndex + 1) \o <<")">>

\* set.subject.match(regex) throws a TypeError when some set read from the
\* store has no subject
matchThrows(sets) == \E i \in 1..Len(sets) : sets[i].subject = Undefined

MatchTypeError == "Cannot read properties of undefined (reading 'match')"

\* variant: the new set is pushed behind the stored ones
addStoredSet_pushes(item, subj, cards) ==
    LET sets          == getStoredSets(item)
        uniqueSubject == getUniqueSubjectName(subj, sets)
    IN  IF matchThrows(sets)
        THEN [item |-> item, result |-> Undefined, saves |-> 0,
              throws |-> TRUE]
        ELSE [item   |-> saveStoredSets(
                          sets \o
                          <<[subject |-> uniqueSubject,
                             flashcards |-> cards]>>),
              result |-> uniqueSubject,
              saves  |-> 1,
              throws |-> FALSE]

\* variant: the subject asked for is returned, not the one stored
addStoredSet_returnsBase(item, subj, cards) ==
    LET sets          == getStoredSets(item)
        uniqueSubject == getUniqueSubjectName(subj, sets)
    IN  IF matchThrows(sets)
        THEN [item |-> item, result |-> Undefined, saves |-> 0,
              throws |-> TRUE]
        ELSE [item   |-> saveStoredSets(
                          <<[subject |-> uniqueSubject,
                             flashcards |-> cards]>>
                          \o sets),
              result |-> subj,
              saves  |-> 1,
              throws |-> FALSE]

\* addStoredSet: the item written and the subject returned, or the error
\* thrown out of getUniqueSubjectName before anything is written
addStoredSet(item, subj, cards) ==
    LET sets          == getStoredSets(item)
        uniqueSubject == getUniqueSubjectName(subj, sets)
    IN  IF matchThrows(sets)
        THEN [item |-> item, result |-> Undefined, saves |-> 0,
              throws |-> TRUE]
        ELSE [item   |-> saveStoredSets(
                          <<[subject |-> uniqueSubject,
                             flashcards |-> cards]>>
                          \o sets),
              result |-> uniqueSubject,
              saves  |-> 1,
              throws |-> FALSE]

\* sets.findIndex(s => s.subject === subject), 0 for -1
findIndex(sets, subj) ==
    IF \E i \in 1..Len(sets) : sets[i].subject = subj
    THEN SetMin({i \in 1..Len(sets) : sets[i].subject = subj})
    ELSE 0

\* variant: the cards of the first set are replaced when the subject is
\* stored
updateStoredSet_firstSet(it, subj, cards) ==
    LET sets == getStoredSets(it)
        idx  == findIndex(sets, subj)
    IN  IF idx # 0
        THEN [item  |-> saveStoredSets(
                          [sets EXCEPT ![1].flashcards = cards]),
              saves |-> 1]
        ELSE [item |-> it, saves |-> 0]

\* variant: the sets are saved also when none has the subject
updateStoredSet_alwaysSaves(it, subj, cards) ==
    LET sets == getStoredSets(it)
        idx  == findIndex(sets, subj)
    IN  IF idx # 0
        THEN [item  |-> saveStoredSets(
                          [sets EXCEPT ![idx].flashcards = cards]),
              saves |-> 1]
        ELSE [item |-> saveStoredSets(sets), saves |-> 1]

\* updateStoredSet: the item afterwards and the number of writes
updateStoredSet(item, subj, cards) ==
    LET sets == getStoredSets(item)
        idx  == findIndex(sets, subj)
    IN  IF idx # 0
        THEN [item  |-> saveStoredSets(
                          [sets EXCEPT ![idx].flashcards = cards]),
              saves |-> 1]
        ELSE [item |-> item, saves |-> 0]

\* variant: the set in front is dropped, whatever its subject
withoutSubject_dropsFirst(sets, subj) ==
    IF sets = <<>> THEN <<>> ELSE Tail(sets)

\* getStoredSets().filter(s => s.subject !== subjectToDelete)
RECURSIVE withoutSubject(_, _)
withoutSubject(sets, subj) ==
    IF sets = <<>> THEN <<>>
    ELSE IF Head(sets).subject # subj
         THEN <<Head(sets)>> \o withoutSubject(Tail(sets), subj)
         ELSE withoutSubject(Tail(sets), subj)

(***************************************************************************)
(* The text-generation service: what the awaited fetch can come back with. *)
(***************************************************************************)
RECURSIVE Words(_)
Words(n) == IF n = 0 THEN <<>> ELSE <<"w", " ">> \o Words(n - 1)

\* "Q: a A: b"
TextOne == <<"Q", ":", " ", "a", " ", "A", ":", " ", "b">>

\* "Q: c A: d\nQ: e A: f"
TextTwo ==
    <<"Q", ":", " ", "c", " ", "A", ":", " ", "d", "\n",
      "Q", ":", " ", "e", " ", "A", ":", " ", "f">>

\* a text without any Q:/A: unit
TextNone == <<"n", "o">>

\* one unit whose question has WordLimit words
TextLong == <<"Q", ":", " ">> \o Words(WordLimit) \o <<"A", ":", " ", "z">>

\* fetch rejects (message), the status is not ok, or a text comes back
Responses ==
    { [kind |-> "reject", message |-> "Failed to fetch", text |-> <<>>],
      [kind |-> "status", message |-> "", text |-> <<>>],
      [kind |-> "ok", message |-> "", text |-> TextOne],
      [kind |-> "ok", message |-> "", text |-> TextTwo],
      [kind |-> "ok", message |-> "", text |-> TextNone],
      [kind |-> "ok", message |-> "", text |-> TextLong] }

\* the texts the user types into the subject input
SubjectInputs == { <<"M">> }

(***************************************************************************)
(* State of the component and of its environment.                          *)
(***************************************************************************)
VARIABLES
    item,           \* the localStorage item STORAGE_KEY
    subject,        \* useState cells of Flashcards
    flashcards,
    loading,
    error,
    current,
    showAnswer,
    showGenerator,
    addingMore,
    storedSets,
    activeSubject,
    calls,          \* suspended generateFlashcards invocations
    crashed,        \* the last render threw: the component is gone
    lastCurrent,    \* useState cells of the switching effect
    switching,
    timeout,        \* the setTimeout of the switching effect is pending
    effectDeps,     \* [current, lastCurrent] as the switching effect last ran
    obs,            \* what the last step was and did (history, not code)
    probe           \* input and output of a function applied on its own

vars == <<item, subject, flashcards, loading, error, current, showAnswer,
          showGenerator, addingMore, storedSets, activeSubject, calls,
          crashed, lastCurrent, switching, timeout, effectDeps, obs, probe>>

NoProbe ==
    [op |-> "none", base |-> <<>>, before |-> <<>>, result |-> <<>>,
     run |-> <<>>]

\* the session cells and the store as they are now
Snapshot ==
    [flashcards |-> flashcards, current |-> current,
     showAnswer |-> showAnswer, activeSubject |-> activeSubject,
     item |-> item]

NoSnapshot ==
    [flashcards |-> <<>>, current |-> 0, showAnswer |-> FALSE,
     activeSubject |-> Null, item |-> NoItem]

\* the cards stored under subj, <<>> when no set has that subject
StoredCards(it, subj) ==
    LET sets == getStoredSets(it)
    IN  IF \E i \in 1..Len(sets) : sets[i].subject = subj
        THEN sets[CHOOSE i \in 1..Len(sets) : sets[i].subject = subj]
                 .flashcards
        ELSE <<>>

\* the record of a step (history, not code): its name, the localStorage
\* writes it made, the cards it merged, whether the answer was shown
\* before it, whether it moved the index, whether it ended a call during
\* which a stored set was selected, and what made the call fail
Obs(op, saves, batch) ==
    [op |-> op, saves |-> saves, batch |-> batch,
     shown |-> showAnswer, moved |-> current' # current,
     afterSelect |-> /\ Len(calls') < Len(calls)
                     /\ \E i \in DOMAIN calls : calls[i].selected,
     cause |-> "none"]

\* a stored set was selected while the calls were suspended
Selected(cs) == [i \in DOMAIN cs |-> [cs[i] EXCEPT !.selected = TRUE]]

\* a user action happened while the calls were suspended: the state they
\* started from is no longer the state they come back to
Disturb(cs) ==
    [i \in DOMAIN cs |-> [cs[i] EXCEPT !.quiet = FALSE, !.snap = NoSnapshot]]

\* the JSX of the browsing view reads flashcards[current].question
renderThrows(sg, cards, cur) ==
    ~sg /\ Len(cards) > 0 /\ ~(cur >= 0 /\ cur < Len(cards))

Render == crashed' = renderThrows(showGenerator', flashcards', current')

\* the cells that only the switching effect and its timer write
effectCells == <<lastCurrent, switching, timeout, effectDeps>>

\* the end of every step of a handler: the render, and the record of the
\* step; the effects of the render are steps of their own
Step(op, saves, batch) ==
    /\ Render
    /\ obs' = Obs(op, saves, batch)
    /\ UNCHANGED effectCells
    /\ UNCHANGED probe

\* the end of a generateFlashcards that took the catch branch
StepFail(cause) ==
    /\ Render
    /\ obs' = [Obs("fail", 0, <<>>) EXCEPT !.cause = cause]
    /\ UNCHANGED effectCells
    /\ UNCHANGED probe

\* no effect of the last render is left to run: React runs the effects of
\* a render before it handles the next event
EffectsSettled == effectDeps = <<current, lastCurrent>>

Init ==
    /\ item = NoItem
    /\ subject = <<>>
    /\ flashcards = <<>>
    /\ loading = FALSE
    /\ error = NoError
    /\ current = 0
    /\ showAnswer = FALSE
    /\ showGenerator = TRUE
    /\ addingMore = FALSE
    /\ storedSets = getStoredSets(item)
    /\ activeSubject = Null
    /\ calls = <<>>
    /\ crashed = FALSE
    /\ lastCurrent = current
    /\ switching = FALSE
    /\ timeout = FALSE
    /\ effectDeps = <<current, lastCurrent>>
    /\ obs = [op |-> "init", saves |-> 0, batch |-> <<>>, shown |-> FALSE,
              moved |-> FALSE, afterSelect |-> FALSE, cause |-> "none"]
    /\ probe = NoProbe

(***************************************************************************)
(* What the JSX renders, i.e. which handlers the user can reach.           *)
(***************************************************************************)
EntryView == ~crashed /\ showGenerator

BrowsingView == ~crashed /\ ~showGenerator /\ Len(flashcards) > 0

\* <input required disabled={loading}> and <button disabled={loading}>
SubmitEnabled == EntryView /\ ~loading /\ subject # <<>>

\* variant: the button is only disabled by addingMore
AddMoreEnabled_ignoresLoading == BrowsingView /\ ~addingMore

\* <button onClick={handleAddMore} disabled={loading || addingMore}>
AddMoreEnabled == BrowsingView /\ ~(loading \/ addingMore)

(***************************************************************************)
(* generateFlashcards, from the awaited response to the value it merges    *)
(* or the message it reports.                                              *)
(***************************************************************************)
\* variant: both throws carry the message of the first
checkCards_sameMessage(cards, filteredCards) ==
    IF Len(cards) = 0 \/ Len(filteredCards) = 0
    THEN [error |-> "Could not parse flashcards from Gemini's response.",
          cards |-> <<>>]
    ELSE [error |-> NoError, cards |-> filteredCards]

\* variant: an empty filtered batch is not thrown but merged
checkCards_mergesEmpty(cards, filteredCards) ==
    IF Len(cards) = 0
    THEN [error |-> "Could not parse flashcards from Gemini's response.",
          cards |-> <<>>]
    ELSE [error |-> NoError, cards |-> filteredCards]

\* the two throws after the parse, or the cards for the merge
checkCards(cards, filteredCards) ==
    IF Len(cards) = 0
    THEN [error |-> "Could not parse flashcards from Gemini's response.",
          cards |-> <<>>]
    ELSE IF Len(filteredCards) = 0
    THEN [error |-> "Could not parse flashcards with questions under 30 words from Gemini's response.",
          cards |-> <<>>]
    ELSE [error |-> NoError, cards |-> filteredCards]

filterParsed(cards) == checkCards(cards, filterCards(cards))

fetchAndParse(res) ==
    IF res.kind = "reject"
    THEN [error |-> IF res.message # "" THEN res.message
                    ELSE "An error occurred.",
          cards |-> <<>>]
    ELSE IF res.kind = "status"
    THEN [error |-> "Failed to fetch flashcards from Gemini", cards |-> <<>>]
    ELSE filterParsed(parseFlashcards(res.text))

\* fetchAndParse over the responses of the model
Outcome == [res \in Responses |-> fetchAndParse(res)]

\* what is wrong with a response (history, not code): the transport, no
\* Q:/A: unit in the text, or no unit left by the filter
FailureCause(res) ==
    IF res.kind # "ok" THEN "transport"
    ELSE IF parseFlashcards(res.text) = <<>> THEN "zeroParsed"
    ELSE IF \A i \in 1..Len(parseFlashcards(res.text)) :
                ~keepsCard(parseFlashcards(res.text)[i])
    THEN "allFiltered"
    ELSE "none"

Cause == [res \in Responses |-> FailureCause(res)]

\* the invocation suspended at the await, with the cells its closure holds
NewCall(subj, prevQuestions, isAddMore) ==
    [subject |-> subj, prevQuestions |-> prevQuestions,
     isAddMore |-> isAddMore,
     activeSubject |-> activeSubject, flashcardsLength |-> Len(flashcards),
     \* history, not code: the state and the stored cards it started from
     snap |-> Snapshot, stored |-> StoredCards(item, activeSubject),
     quiet |-> TRUE, selected |-> FALSE]

\* variant: the finally block does not take addingMore back
Finally_keepsAddingMore == loading' = FALSE /\ UNCHANGED addingMore

\* the finally block of generateFlashcards
Finally == loading' = FALSE /\ addingMore' = FALSE

RemoveAt(cs, i) == SubSeq(cs, 1, i - 1) \o SubSeq(cs, i + 1, Len(cs))

(***************************************************************************)
(* The handlers.                                                           *)
(***************************************************************************)
\* variant: the mount effect leaves the list as useState created it
Mount_noLoad ==
    /\ subject' = <<>>
    /\ flashcards' = <<>>
    /\ loading' = FALSE
    /\ error' = NoError
    /\ current' = 0
    /\ showAnswer' = FALSE
    /\ showGenerator' = TRUE
    /\ addingMore' = FALSE
    /\ storedSets' = <<>>
    /\ activeSubject' = Null
    /\ calls' = <<>>
    /\ lastCurrent' = 0
    /\ switching' = FALSE
    /\ timeout' = FALSE
    /\ effectDeps' = <<0, 0>>
    /\ UNCHANGED <<item, probe>>
    /\ Render
    /\ obs' = Obs("mount", 0, <<>>)

\* the mount of the component on a page load: fresh cells, the mount effect
\* reads the store; what was suspended in the old page is gone
Mount ==
    /\ subject' = <<>>
    /\ flashcards' = <<>>
    /\ loading' = FALSE
    /\ error' = NoError
    /\ current' = 0
    /\ showAnswer' = FALSE
    /\ showGenerator' = TRUE
    /\ addingMore' = FALSE
    /\ storedSets' = getStoredSets(item)
    /\ activeSubject' = Null
    /\ calls' = <<>>
    /\ lastCurrent' = 0
    /\ switching' = FALSE
    /\ timeout' = FALSE
    /\ effectDeps' = <<0, 0>>
    /\ UNCHANGED <<item, probe>>
    /\ Render
    /\ obs' = Obs("mount", 0, <<>>)

\* onChange of the subject input
SubjectChange(s) ==
    /\ EntryView
    /\ EffectsSettled
    /\ ~loading
    /\ s # subject
    /\ subject' = s
    /\ calls' = Disturb(calls)
    /\ UNCHANGED <<item, flashcards, loading, error, current, showAnswer,
                   showGenerator, addingMore, storedSets, activeSubject>>
    /\ Step("type", 0, <<>>)

\* handleSubmit up to the await inside generateFlashcards(subject, [])
HandleSubmit ==
    /\ SubmitEnabled
    /\ EffectsSettled
    /\ Len(getStoredSets(item)) < MaxSets
    /\ scanAll(subject, getStoredSets(item)).maxIndex < MaxIndex
    /\ flashcards' = <<>>
    /\ current' = 0
    /\ showAnswer' = FALSE
    /\ activeSubject' = Null
    /\ loading' = TRUE
    /\ error' = NoError
    /\ calls' = Append(Disturb(calls), NewCall(subject, <<>>, FALSE))
    /\ UNCHANGED <<item, subject, showGenerator, addingMore, storedSets>>
    /\ Step("submit", 0, <<>>)

\* handleAddMore up to the await inside generateFlashcards
HandleAddMore ==
    /\ AddMoreEnabled
    /\ EffectsSettled
    /\ Len(flashcards) < MaxCards
    /\ addingMore' = TRUE
    /\ loading' = TRUE
    /\ error' = NoError
    /\ calls' = Append(Disturb(calls),
                       NewCall(IF activeSubject # Null THEN activeSubject
                               ELSE subject,
                               [i \in 1..Len(flashcards) |->
                                   flashcards[i].question],
                               TRUE))
    /\ UNCHANGED <<item, subject, flashcards, current, showAnswer,
                   showGenerator, storedSets, activeSubject>>
    /\ Step("addMore", 0, <<>>)

\* generateFlashcards from the await on: try, catch and finally
GenerateResume(i, res) ==
    LET call == calls[i]
        r    == Outcome[res]
    IN
    /\ EffectsSettled
    /\ Len(IF Len(call.prevQuestions) = 0 THEN r.cards
           ELSE flashcards \o r.cards) <= MaxCards
    /\ calls' = RemoveAt(calls, i)
    /\ Finally
    /\ IF r.error # NoError
       THEN /\ error' = r.error
            /\ UNCHANGED <<item, subject, flashcards, current, showAnswer,
                           showGenerator, storedSets, activeSubject>>
            /\ StepFail(Cause[res])
       ELSE IF Len(call.prevQuestions) = 0
       THEN LET a == addStoredSet(item, call.subject, r.cards)
            IN  IF a.throws
                THEN
                /\ error' = MatchTypeError
                /\ UNCHANGED <<item, subject, flashcards, current,
                               showAnswer, showGenerator, storedSets,
                               activeSubject>>
                /\ StepFail("store")
                ELSE
                /\ item' = a.item
                /\ storedSets' = getStoredSets(a.item)
                /\ subject' = a.result
                /\ activeSubject' = a.result
                /\ flashcards' = r.cards
                /\ showGenerator' = FALSE
                /\ current' = 0
                /\ showAnswer' = FALSE
                /\ UNCHANGED error
                /\ Step("initOK", a.saves, r.cards)
       ELSE LET updated == flashcards \o r.cards
                truthy  == /\ call.activeSubject # Null
                           /\ call.activeSubject # Undefined
                           /\ call.activeSubject # <<>>
                u       == IF truthy
                           THEN updateStoredSet(item, call.activeSubject,
                                                updated)
                           ELSE [item |-> item, saves |-> 0]
            IN  /\ item' = u.item
                /\ storedSets' = IF truthy THEN getStoredSets(u.item)
                                 ELSE storedSets
                /\ flashcards' = updated
                /\ current' = call.flashcardsLength
                /\ showAnswer' = FALSE
                /\ UNCHANGED <<subject, activeSubject, showGenerator, error>>
                /\ Step("contOK", u.saves, r.cards)

\* variant: the answer is shown, not flipped
HandleFlip_shows ==
    /\ BrowsingView
    /\ EffectsSettled
    /\ showAnswer' = TRUE
    /\ calls' = Disturb(calls)
    /\ UNCHANGED <<item, subject, flashcards, loading, error, current,
                   showGenerator, addingMore, storedSets, activeSubject>>
    /\ Step("flip", 0, <<>>)

HandleFlip ==
    /\ BrowsingView
    /\ EffectsSettled
    /\ showAnswer' = ~showAnswer
    /\ calls' = Disturb(calls)
    /\ UNCHANGED <<item, subject, flashcards, loading, error, current,
                   showGenerator, addingMore, storedSets, activeSubject>>
    /\ Step("flip", 0, <<>>)

\* variant: the answer is only hidden when the index changes
HandleCircleClick_keepsAnswer(idx) ==
    /\ BrowsingView
    /\ EffectsSettled
    /\ current' = idx
    /\ showAnswer' = (showAnswer /\ idx = current)
    /\ calls' = Disturb(calls)
    /\ UNCHANGED <<item, subject, flashcards, loading, error, showGenerator,
                   addingMore, storedSets, activeSubject>>
    /\ Step("goTo", 0, <<>>)

\* the circle of card idx is clicked
HandleCircleClick(idx) ==
    /\ BrowsingView
    /\ EffectsSettled
    /\ current' = idx
    /\ showAnswer' = FALSE
    /\ calls' = Disturb(calls)
    /\ UNCHANGED <<item, subject, flashcards, loading, error, showGenerator,
                   addingMore, storedSets, activeSubject>>
    /\ Step("goTo", 0, <<>>)

\* the cells handleBackToGenerator sets
BackToGenerator ==
    /\ showGenerator' = TRUE
    /\ flashcards' = <<>>
    /\ current' = 0
    /\ showAnswer' = FALSE
    /\ error' = NoError
    /\ subject' = <<>>
    /\ activeSubject' = Null

HandleBackToGenerator ==
    /\ BrowsingView
    /\ EffectsSettled
    /\ BackToGenerator
    /\ calls' = Disturb(calls)
    /\ UNCHANGED <<item, loading, addingMore, storedSets>>
    /\ Step("back", 0, <<>>)

\* variant: the click opens the set without making it the active one
HandleStoredSetClick_noActive(k) ==
    LET set == storedSets[k]
    IN  /\ EntryView
        /\ EffectsSettled
        /\ subject' = set.subject
        /\ flashcards' = set.flashcards
        /\ showGenerator' = FALSE
        /\ current' = 0
        /\ showAnswer' = FALSE
        /\ error' = NoError
        /\ calls' = Selected(Disturb(calls))
        /\ UNCHANGED <<item, loading, addingMore, storedSets, activeSubject>>
        /\ Step("select", 0, <<>>)

\* the k-th set of the list of the entry view is clicked
HandleStoredSetClick(k) ==
    LET set == storedSets[k]
    IN  /\ EntryView
        /\ EffectsSettled
        /\ subject' = set.subject
        /\ activeSubject' = set.subject
        /\ flashcards' = set.flashcards
        /\ showGenerator' = FALSE
        /\ current' = 0
        /\ showAnswer' = FALSE
        /\ error' = NoError
        /\ calls' = Selected(Disturb(calls))
        /\ UNCHANGED <<item, loading, addingMore, storedSets>>
        /\ Step("select", 0, <<>>)

\* the delete button of the k-th set of the list is clicked
HandleDeleteStoredSet(k) ==
    LET subjectToDelete == storedSets[k].subject
        sets == withoutSubject(getStoredSets(item), subjectToDelete)
    IN  /\ EntryView
        /\ EffectsSettled
        /\ item' = saveStoredSets(sets)
        /\ storedSets' = sets
        /\ IF ~showGenerator /\ (activeSubject = subjectToDelete
                                 \/ subject = subjectToDelete)
           THEN BackToGenerator
           ELSE UNCHANGED <<showGenerator, flashcards, current, showAnswer,
                            error, subject, activeSubject>>
        /\ calls' = Disturb(calls)
        /\ UNCHANGED <<loading, addingMore>>
        /\ Step("delete", 1, <<>>)

\* variant: the index is not stopped at the first card
HandlePrev_belowFirst ==
    /\ BrowsingView
    /\ EffectsSettled
    /\ current' = current - 1
    /\ showAnswer' = FALSE
    /\ calls' = Disturb(calls)
    /\ UNCHANGED <<item, subject, flashcards, loading, error, showGenerator,
                   addingMore, storedSets, activeSubject>>
    /\ Step("prev", 0, <<>>)

\* the left arrow button, or the ArrowLeft key
HandlePrev ==
    /\ BrowsingView
    /\ EffectsSettled
    /\ IF current > 0
       THEN current' = current - 1 /\ showAnswer' = FALSE
       ELSE UNCHANGED <<current, showAnswer>>
    /\ calls' = Disturb(calls)
    /\ UNCHANGED <<item, subject, flashcards, loading, error, showGenerator,
                   addingMore, storedSets, activeSubject>>
    /\ Step("prev", 0, <<>>)

\* variant: the answer stays shown on the next card
HandleNext_keepsAnswer ==
    /\ BrowsingView
    /\ EffectsSettled
    /\ IF current < Len(flashcards) - 1
       THEN current' = current + 1 /\ UNCHANGED showAnswer
       ELSE UNCHANGED <<current, showAnswer>>
    /\ calls' = Disturb(calls)
    /\ UNCHANGED <<item, subject, flashcards, loading, error, showGenerator,
                   addingMore, storedSets, activeSubject>>
    /\ Step("next", 0, <<>>)

\* the right arrow button, or the ArrowRight key
HandleNext ==
    /\ BrowsingView
    /\ EffectsSettled
    /\ IF current < Len(flashcards) - 1
       THEN current' = current + 1 /\ showAnswer' = FALSE
       ELSE UNCHANGED <<current, showAnswer>>
    /\ calls' = Disturb(calls)
    /\ UNCHANGED <<item, subject, flashcards, loading, error, showGenerator,
                   addingMore, storedSets, activeSubject>>
    /\ Step("next", 0, <<>>)

\* the variables of the component that the switching effect leaves alone
sessionCells ==
    <<item, subject, flashcards, loading, error, current, showAnswer,
      showGenerator, addingMore, storedSets, activeSubject, calls, crashed>>

\* variant: the effect does not depend on lastCurrent, so that the update
\* of lastCurrent does not run it again
SwitchingEffect_noRerun ==
    /\ ~crashed
    /\ ~EffectsSettled
    /\ IF lastCurrent # current
       THEN /\ switching' = TRUE
            /\ timeout' = TRUE
            /\ lastCurrent' = current
            /\ effectDeps' = <<current, current>>
       ELSE /\ effectDeps' = <<current, lastCurrent>>
            /\ UNCHANGED <<switching, timeout, lastCurrent>>
    /\ UNCHANGED sessionCells
    /\ UNCHANGED probe
    /\ obs' = Obs("effect", 0, <<>>)

\* the switching effect runs after a render in which current or lastCurrent
\* is not what it was when the effect last ran: first the cleanup that the
\* last run returned (clearTimeout), then the body
SwitchingEffect ==
    /\ ~crashed
    /\ ~EffectsSettled
    /\ IF lastCurrent # current
       THEN /\ switching' = TRUE
            /\ timeout' = TRUE
            /\ lastCurrent' = current
       ELSE /\ timeout' = FALSE
            /\ UNCHANGED <<switching, lastCurrent>>
    /\ effectDeps' = <<current, lastCurrent>>
    /\ UNCHANGED sessionCells
    /\ UNCHANGED probe
    /\ obs' = Obs("effect", 0, <<>>)

\* the callback of setTimeout(() => setSwitching(false), 220)
TimeoutFires ==
    /\ ~crashed
    /\ timeout
    /\ timeout' = FALSE
    /\ switching' = FALSE
    /\ UNCHANGED <<lastCurrent, effectDeps>>
    /\ UNCHANGED sessionCells
    /\ UNCHANGED probe
    /\ obs' = Obs("timeout", 0, <<>>)

Next ==
    \/ Mount
    \/ \E s \in SubjectInputs : SubjectChange(s)
    \/ HandleSubmit
    \/ HandleAddMore
    \/ \E i \in DOMAIN calls : \E res \in Responses : GenerateResume(i, res)
    \/ HandleFlip
    \/ \E idx \in 0..(Len(flashcards) - 1) : HandleCircleClick(idx)
    \/ HandleBackToGenerator
    \/ \E k \in DOMAIN storedSets : HandleStoredSetClick(k)
    \/ \E k \in DOMAIN storedSets : HandleDeleteStoredSet(k)
    \/ HandlePrev
    \/ HandleNext
    \/ SwitchingEffect
    \/ TimeoutFires

Spec == Init /\ [][Next]_vars

\* some suspended generateFlashcards invocation is resumed by its response
Resume == \E i \in DOMAIN calls : \E res \in Responses : GenerateResume(i, res)

\* what goes on without the user: a pending effect is run, a pending timer
\* fires unless it is cleared first, and an awaited fetch settles; its
\* continuation is queued and runs between two renders however long the
\* user keeps the component rendering
SpecLive ==
    /\ Spec
    /\ WF_vars(SwitchingEffect)
    /\ WF_vars(TimeoutFires)
    /\ SF_vars(Resume)

(***************************************************************************)
(* handleCircleClick applied to any index: besides the circles that the    *)
(* browsing view renders, one per card, the handler is handed the indices  *)
(* next to both ends of the cards.                                         *)
(***************************************************************************)
OutsideIndices == {-1, Len(flashcards)}

NextGoTo ==
    \/ Next
    \/ \E idx \in OutsideIndices : HandleCircleClick(idx)

SpecGoTo == Init /\ [][NextGoTo]_vars

(***************************************************************************)
(* The component loaded on a durable value that it did not write itself:   *)
(* absent, text that is not JSON, or JSON that is not an array of sets,    *)
(* here [{"flashcards":[]}], an array of an object without a subject.      *)
(***************************************************************************)
NotSetRecords == stringify(<<[subject |-> Undefined, flashcards |-> <<>>]>>)

StoreContents == {NoItem, BadText, NotSetRecords}

InitStore ==
    /\ item \in StoreContents
    /\ subject = <<>>
    /\ flashcards = <<>>
    /\ loading = FALSE
    /\ error = NoError
    /\ current = 0
    /\ showAnswer = FALSE
    /\ showGenerator = TRUE
    /\ addingMore = FALSE
    /\ storedSets = getStoredSets(item)
    /\ activeSubject = Null
    /\ calls = <<>>
    /\ crashed = FALSE
    /\ lastCurrent = current
    /\ switching = FALSE
    /\ timeout = FALSE
    /\ effectDeps = <<current, lastCurrent>>
    /\ obs = [op |-> "init", saves |-> 0, batch |-> <<>>, shown |-> FALSE,
              moved |-> FALSE, afterSelect |-> FALSE, cause |-> "none"]
    /\ probe = NoProbe

SpecStore == InitStore /\ [][Next]_vars

(***************************************************************************)
(* The store functions applied on their own: sets are added under typed    *)
(* bases and deleted, in any order.                                        *)
(***************************************************************************)
\* the store of this specification holds at most NamerMaxSets sets
NamerMaxSets == 3
\* and a set is added only while the suffixes its base meets are below
NamerMaxIndex == 2

\* "M", "M(1)", "M(01)"
NamerInputs ==
    { <<"M">>, <<"M", "(", "1", ")">>, <<"M", "(", "0", "1", ")">> }

NamerCards == <<[question |-> <<"a">>, answer |-> <<"b">>]>>

SubjectsOf(sets) == [i \in 1..Len(sets) |-> sets[i].subject]

\* subj is base followed by a parenthesised run of digits
IsSuffixed(base, subj) ==
    /\ Len(subj) >= Len(base) + 3
    /\ SubSeq(subj, 1, Len(base)) = base
    /\ subj[Len(base) + 1] = "("
    /\ subj[Len(subj)] = ")"
    /\ \A i \in (Len(base) + 2)..(Len(subj) - 1) : IsDigit(subj[i])

SuffixOf(base, subj) ==
    parseInt(SubSeq(subj, Len(base) + 2, Len(subj) - 1))

\* the numeric suffixes that base has among the subjects
Suffixes(base, subjects) ==
    {SuffixOf(base, subjects[i]) :
        i \in {j \in 1..Len(subjects) : IsSuffixed(base, subjects[j])}}

HasBase(base, subjects) == \E i \in 1..Len(subjects) : subjects[i] = base

SetMax(S) == CHOOSE x \in S : \A y \in S : y <= x

WithSuffix(base, n) == base \o <<"(">> \o numberToString(n) \o <<")">>

\* addStoredSet(base, cards) on the store as it is
NamerAdd(base) ==
    LET sets == getStoredSets(item)
        a    == addStoredSet(item, base, NamerCards)
        subjects == SubjectsOf(sets)
        fresh == ~HasBase(base, subjects) /\ Suffixes(base, subjects) = {}
    IN  /\ Len(sets) < NamerMaxSets
        /\ scanAll(base, sets).maxIndex < NamerMaxIndex
        /\ item' = a.item
        /\ probe' = [op |-> "add", base |-> base, before |-> subjects,
                     result |-> a.result,
                     \* the names returned by the adds of one base in a
                     \* row, begun on a store without that base
                     run |-> IF probe.run # <<>> /\ probe.base = base
                                /\ probe.op = "add" /\ Len(probe.run) < 3
                             THEN Append(probe.run, a.result)
                             ELSE IF fresh THEN <<a.result>>
                             ELSE <<>>]
        /\ UNCHANGED <<subject, flashcards, loading, error, current,
                       showAnswer, showGenerator, addingMore, storedSets,
                       activeSubject, calls, crashed, obs>>
        /\ UNCHANGED effectCells

\* the filter and save of handleDeleteStoredSet on the k-th stored set
NamerDelete(k) ==
    LET sets == getStoredSets(item)
    IN  /\ item' = saveStoredSets(withoutSubject(sets, sets[k].subject))
        /\ probe' = [op |-> "delete", base |-> sets[k].subject,
                     before |-> SubjectsOf(sets), result |-> <<>>,
                     run |-> <<>>]
        /\ UNCHANGED <<subject, flashcards, loading, error, current,
                       showAnswer, showGenerator, addingMore, storedSets,
                       activeSubject, calls, crashed, obs>>
        /\ UNCHANGED effectCells

\* the same filter and save for a subject that is no longer stored: the
\* list that shows the delete button is older than the store when another
\* page of the same origin has written the item since
NamerDeleteAbsent(subj) ==
    LET sets == getStoredSets(item)
    IN  /\ ~HasBase(subj, SubjectsOf(sets))
        /\ item' = saveStoredSets(withoutSubject(sets, subj))
        /\ probe' = [op |-> "delete", base |-> subj,
                     before |-> SubjectsOf(sets), result |-> <<>>,
                     run |-> <<>>]
        /\ UNCHANGED <<subject, flashcards, loading, error, current,
                       showAnswer, showGenerator, addingMore, storedSets,
                       activeSubject, calls, crashed, obs>>
        /\ UNCHANGED effectCells

NextNamer ==
    \/ \E base \in NamerInputs : NamerAdd(base)
    \/ \E k \in 1..Len(getStoredSets(item)) : NamerDelete(k)
    \/ \E subj \in NamerInputs : NamerDeleteAbsent(subj)

SpecNamer == Init /\ [][NextNamer]_vars

(***************************************************************************)
(* The length filter applied on its own to parsed cards whose questions    *)
(* have a known number of words.                                           *)
(***************************************************************************)
\* the filter is given at most FilterMaxCards cards
FilterMaxCards == 2

\* n words with one space between them
PlainWords(n) ==
    [i \in 1..(2 * n - 1) |-> IF i % 2 = 1 THEN "w" ELSE " "]

\* n words with more whitespace between and around them
PaddedWords(n) ==
    [i \in 1..(3 * n + 1) |->
        IF i % 3 = 0 THEN "w" ELSE IF i % 3 = 1 THEN " " ELSE "\n"]

\* a question is described by its number of words and its spacing
QuestionShapes == {1, 29, 30, 31} \X {"plain", "padded"}

QuestionOf(shape) ==
    IF shape[2] = "plain" THEN PlainWords(shape[1])
    ELSE PaddedWords(shape[1])

\* the cards of the shapes; the answer tells the place in the parse order
CardsOf(shapes) ==
    [i \in 1..Len(shapes) |->
        [question |-> QuestionOf(shapes[i]), answer |-> numberToString(i)]]

ShapeLists ==
    UNION {[1..n -> QuestionShapes] : n \in 0..FilterMaxCards}

ProbeCells ==
    /\ item = NoItem
    /\ subject = <<>>
    /\ flashcards = <<>>
    /\ loading = FALSE
    /\ error = NoError
    /\ current = 0
    /\ showAnswer = FALSE
    /\ showGenerator = TRUE
    /\ addingMore = FALSE
    /\ storedSets = <<>>
    /\ activeSubject = Null
    /\ calls = <<>>
    /\ crashed = FALSE
    /\ lastCurrent = 0
    /\ switching = FALSE
    /\ timeout = FALSE
    /\ effectDeps = <<0, 0>>
    /\ obs = [op |-> "init", saves |-> 0, batch |-> <<>>, shown |-> FALSE,
              moved |-> FALSE, afterSelect |-> FALSE, cause |-> "none"]

InitFilter ==
    /\ ProbeCells
    /\ \E shapes \in ShapeLists :
          probe = [op |-> "cards", base |-> CardsOf(shapes),
                   before |-> shapes, result |-> <<>>, run |-> <<>>]

\* cards.filter(...) on the cards of the probe
ApplyFilter ==
    /\ probe.op = "cards"
    /\ probe' = [probe EXCEPT !.op = "filter",
                              !.result = filterCards(probe.base)]
    /\ UNCHANGED <<sessionCells, effectCells, obs>>

SpecFilter == InitFilter /\ [][ApplyFilter]_vars

(***************************************************************************)
(* parseFlashcards applied on its own to texts made of Q:/A: units.        *)
(***************************************************************************)
\* a text has at most ParseMaxUnits units
ParseMaxUnits == 2

\* questions and answers as written, each with what is left of it when the
\* whitespace around it is taken away
UnitQuestions ==
    { << <<"A", "?">>, <<"A", "?">> >>,
      << <<"C", "?">>, <<"C", "?">> >>,
      << <<" ", "x", " ", "y", "\n">>, <<"x", " ", "y">> >> }

UnitAnswers ==
    { << <<"B">>, <<"B">> >>,
      << <<"D">>, <<"D">> >>,
      << <<"u", "\n", "v", " ">>, <<"u", "\n", "v">> >> }

Units == UnitQuestions \X UnitAnswers

\* what stands between two units
Separators == { <<" ">>, <<"\n">>, <<>> }

\* "Q: q A: a"
UnitText(unit) ==
    <<"Q", ":", " ">> \o unit[1][1] \o <<" ", "A", ":", " ">> \o unit[2][1]

RECURSIVE JoinUnits(_, _)
JoinUnits(units, sep) ==
    IF Len(units) = 1 THEN UnitText(units[1])
    ELSE UnitText(units[1]) \o sep \o JoinUnits(Tail(units), sep)

UnitLists == UNION {[1..n -> Units] : n \in 1..ParseMaxUnits}

InitParse ==
    /\ ProbeCells
    /\ \E units \in UnitLists : \E sep \in Separators :
          probe = [op |-> "text", base |-> JoinUnits(units, sep),
                   before |-> units, result |-> <<>>, run |-> <<>>]

\* parseFlashcards on the text of the probe
ApplyParse ==
    /\ probe.op = "text"
    /\ probe' = [probe EXCEPT !.op = "parse",
                              !.result = parseFlashcards(probe.base)]
    /\ UNCHANGED <<sessionCells, effectCells, obs>>

SpecParse == InitParse /\ [][ApplyParse]_vars

(***************************************************************************)
(* Properties.                                                             *)
(***************************************************************************)
Math == <<"M">>

HasSet(it, subj) ==
    \E i \in 1..Len(getStoredSets(it)) : getStoredSets(it)[i].subject = subj

\* C1: in every reachable state the subjects of the stored sets are
\* pairwise distinct, whatever generations, continuations and deletions
\* happened and however they interleaved with a call in flight.
C1_SubjectsDistinct ==
    LET sets == getStoredSets(item)
    IN  \A i, j \in 1..Len(sets) :
            i # j => sets[i].subject # sets[j].subject

\* C1 witness: a generation has just stored a second set under the base of
\* a set that is already stored.
C1_Witness ==
    /\ obs.op = "initOK"
    /\ Len(getStoredSets(item)) >= 2
    /\ HasSet(item, Math)
    /\ activeSubject # Math
    /\ subjectMatch(Math, activeSubject).matched

\* C2: on a store without Math and Math(n), the adds of base Math in a row
\* return and store "Math", "Math(1)", "Math(2)", in this order.
C2_ThreeAdds ==
    LET expected == <<Math, WithSuffix(Math, 1), WithSuffix(Math, 2)>>
        n        == Len(probe.run)
        subjects == SubjectsOf(getStoredSets(item))
    IN  (probe.op = "add" /\ probe.base = Math /\ n >= 1) =>
            /\ probe.run = SubSeq(expected, 1, n)
            /\ \A i \in 1..n : subjects[i] = expected[n + 1 - i]

\* C3 as claimed: the name is base(m+1) as soon as the base or a suffixed
\* variant of it is stored (with only the base stored, some suffixed name),
\* and the base itself only when neither is stored.
C3_Original ==
    LET hasBase  == HasBase(probe.base, probe.before)
        suffixes == Suffixes(probe.base, probe.before)
    IN  probe.op = "add" =>
          /\ suffixes # {} =>
                probe.result = WithSuffix(probe.base, SetMax(suffixes) + 1)
          /\ (hasBase /\ suffixes = {}) => probe.result # probe.base
          /\ (~hasBase /\ suffixes = {}) => probe.result = probe.base

\* C3 amended: the name is base(m+1), m the largest numeric suffix, when
\* the exact base is stored together with suffixed variants; it is the base
\* unchanged whenever the exact base is not stored, suffixed variants or not.
C3_Amended ==
    LET hasBase  == HasBase(probe.base, probe.before)
        suffixes == Suffixes(probe.base, probe.before)
    IN  probe.op = "add" =>
          /\ (hasBase /\ suffixes # {}) =>
                probe.result = WithSuffix(probe.base, SetMax(suffixes) + 1)
          /\ ~hasBase => probe.result = probe.base

\* C3 witness: a base was added while the base and a variant with a
\* suffix above 0 were stored, and got the next suffix.
C3_Witness ==
    /\ probe.op = "add"
    /\ HasBase(probe.base, probe.before)
    /\ Suffixes(probe.base, probe.before) # {}
    /\ SetMax(Suffixes(probe.base, probe.before)) >= 1
    /\ getStoredSets(item)[1].subject = probe.result
    /\ probe.result # probe.base

\* C4: whenever the session holds cards, 0 <= currentIndex < length(cards).
C4_IndexInRange ==
    flashcards # <<>> => (0 <= current /\ current < Len(flashcards))

\* C5: a continuation issued while browsing set S that succeeds leaves, as
\* the cards stored for S, the cards stored for S before the call followed
\* by the newly filtered cards.
C5_ContinuationAppends ==
    [][(obs'.op = "contOK" /\ Len(calls) = 1) =>
          (HasSet(item', calls[1].activeSubject) =>
              StoredCards(item', calls[1].activeSubject)
                  = calls[1].stored \o obs'.batch)]_vars

\* C6: after a successful continuation currentIndex is the position, in the
\* session's cards as merged, of the first appended card, and revealed is
\* false.
C6_IndexOnFirstNewCard ==
    obs.op = "contOK" =>
        /\ current = Len(flashcards) - Len(obs.batch)
        /\ ~showAnswer

\* C7: a generation call that fails leaves the store, the session's cards,
\* currentIndex, revealed and activeSubject as they were before the
\* operation was invoked (no other user action having happened since).
C7_FailureRestores ==
    [][(obs'.op = "fail" /\ Len(calls) = 1 /\ calls[1].quiet) =>
          /\ item' = calls[1].snap.item
          /\ flashcards' = calls[1].snap.flashcards
          /\ current' = calls[1].snap.current
          /\ showAnswer' = calls[1].snap.showAnswer
          /\ activeSubject' = calls[1].snap.activeSubject]_vars

\* C8 as claimed: every successful generation call writes the store exactly
\* once and every failed one never.
C8_Original ==
    /\ obs.op \in {"initOK", "contOK"} => obs.saves = 1
    /\ obs.op = "fail" => obs.saves = 0

\* C8 amended: a successful initial generation writes the store exactly
\* once; a successful continuation writes it exactly once when a set with
\* the subject the call was issued for is stored at the merge, and not at
\* all when that set was deleted meanwhile; a failed call never writes.
C8_Amended ==
    [][/\ obs'.op = "initOK" => obs'.saves = 1
       /\ obs'.op = "fail" => obs'.saves = 0 /\ item' = item
       /\ (obs'.op = "contOK" /\ Len(calls) = 1) =>
             obs'.saves = IF HasSet(item, calls[1].activeSubject)
                          THEN 1 ELSE 0]_vars

\* C8 witness: a continuation has succeeded after its set was deleted, and
\* wrote nothing.
C8_Witness ==
    /\ obs.op = "contOK"
    /\ obs.saves = 0
    /\ obs.batch # <<>>
    /\ flashcards # <<>>

\* C9: at most one generation call is outstanding, and the in-flight flag
\* is up as long as it is.
C9_OneCallInFlight ==
    /\ Len(calls) <= 1
    /\ calls # <<>> => loading
    /\ loading => ~SubmitEnabled /\ ~AddMoreEnabled

\* C9 witness: a set was selected while a call is in flight, so the
\* browsing view with its add-more button is shown during the call.
C9_Witness ==
    /\ Len(calls) = 1
    /\ BrowsingView
    /\ loading
    /\ ~addingMore

\* C10: no step changes currentIndex and leaves revealed true.
C10_RevealReset == [][current' # current => ~showAnswer']_vars

\* C10 witness: next, prev or goTo moved the index off a card whose answer
\* was shown.
C10_Witness ==
    /\ obs.shown
    /\ obs.moved
    /\ obs.op \in {"next", "prev", "goTo"}
    /\ ~showAnswer

\* C11: next on the last card and prev on the first card change nothing:
\* currentIndex, revealed and switching stay as they are, and no switching
\* effect is left to run (no wrap-around, no failing render).
C11_EdgesAreNoOps ==
    [][(\/ obs'.op = "next" /\ current = Len(flashcards) - 1
        \/ obs'.op = "prev" /\ current = 0) =>
          /\ current' = current
          /\ showAnswer' = showAnswer
          /\ switching' = switching
          /\ EffectsSettled'
          /\ ~crashed']_vars

\* C11 witness: next was pressed on the last of several cards while its
\* answer was shown, and the answer is still shown.
C11_Witness ==
    /\ obs.op = "next"
    /\ ~obs.moved
    /\ obs.shown
    /\ showAnswer
    /\ Len(flashcards) >= 2
    /\ current = Len(flashcards) - 1

C13_Original ==
    [][(obs'.op = "goTo" /\ current' = current) =>
          /\ showAnswer' = showAnswer
          /\ switching' = switching
          /\ EffectsSettled']_vars

\* C13 amended: goTo(index) with index equal to currentIndex leaves
\* currentIndex and switching unchanged and starts no switch, and it sets
\* revealed to false: a revealed card is turned back to its question.
C13_Amended ==
    [][(obs'.op = "goTo" /\ current' = current) =>
          /\ ~showAnswer'
          /\ switching' = switching
          /\ EffectsSettled'
          /\ ~crashed']_vars

\* C13 witness: the circle of the current card was clicked while its answer
\* was shown, and the answer is hidden.
C13_Witness ==
    /\ obs.op = "goTo"
    /\ ~obs.moved
    /\ obs.shown
    /\ ~showAnswer
    /\ EffectsSettled

\* C14: after a transition that changes currentIndex switching becomes
\* true (unless the page is loaded anew first), and a switching that is
\* true becomes false again without any further input of the user, through
\* the timer of the effect.
C14_SwitchingClears ==
    /\ (~crashed /\ lastCurrent # current)
          ~> (switching \/ obs.op = "mount")
    /\ switching ~> ~switching

\* the item holds an array of sets, as saveStoredSets writes it
HoldsSets(it) ==
    /\ it.tag = "json"
    /\ \A i \in 1..Len(it.val) : it.val[i].subject # Undefined

\* C15: whenever the durable value is absent, not parseable, or parseable
\* but not a sequence of set records, reading the store yields the empty
\* sequence, the list shows no set, and no operation has failed or put an
\* error before the user because of it.
C15_MalformedReadsEmpty ==
    /\ ~HoldsSets(item) =>
          /\ getStoredSets(item) = <<>>
          /\ storedSets = <<>>
    /\ error # MatchTypeError

\* C16: a successful initial generation leaves activeSubject equal to the
\* subject under which the add stored the set, the session's cards equal to
\* the filtered cards (which are the cards stored), currentIndex 0, revealed
\* false and the browsing view shown, also when a stored set was selected
\* while the call was in flight.
C16_InitialGenerationResult ==
    obs.op = "initOK" =>
        /\ getStoredSets(item) # <<>>
        /\ activeSubject = getStoredSets(item)[1].subject
        /\ subject = activeSubject
        /\ flashcards = obs.batch
        /\ flashcards = getStoredSets(item)[1].flashcards
        /\ flashcards # <<>>
        /\ current = 0
        /\ ~showAnswer
        /\ ~showGenerator
        /\ ~crashed

\* C16 witness: an initial generation succeeded after a stored set was
\* selected during the call, and stored its cards under a suffixed name.
C16_Witness ==
    /\ obs.op = "initOK"
    /\ obs.afterSelect
    /\ Len(getStoredSets(item)) >= 2
    /\ activeSubject # Math
    /\ ~showGenerator

\* C17: every generation call that has started finishes, and when a call
\* has finished, in whichever way, loading and addingMore are false; after
\* a call that failed lastError is set.
C17_CallsFinish ==
    /\ (calls # <<>>) ~> (calls = <<>> /\ ~loading /\ ~addingMore)
    /\ [](obs.op \in {"fail", "initOK", "contOK"} =>
            ~loading /\ ~addingMore)
    /\ [](obs.op = "fail" => error # NoError /\ error # "")

\* C17 witness: a continuation has failed on a text that the filter left
\* empty; the flags are down and the message is shown.
C17_Witness ==
    /\ obs.op = "fail"
    /\ obs.cause = "allFiltered"
    /\ flashcards # <<>>
    /\ ~loading
    /\ ~addingMore
    /\ error # NoError

\* C18: the error value of a failed call tells the failure: no response
\* that fails for another reason (zero units parsed, every card filtered
\* out, transport or status) sets the error that this call has set.
C18_ErrorsTellCause ==
    obs.op = "fail" =>
        /\ obs.cause \in {"transport", "zeroParsed", "allFiltered"}
        /\ \A res \in Responses :
              Cause[res] # obs.cause => Outcome[res].error # error

\* C18 witness: a call has failed because the filter dropped every parsed
\* card, and its message is shown.
C18_Witness ==
    /\ obs.op = "fail"
    /\ obs.cause = "allFiltered"
    /\ error = Outcome[[kind |-> "ok", message |-> "", text |-> TextLong]].error
    /\ calls = <<>>

\* the members of s, in order, whose place satisfies Keep
RECURSIVE PlacesKept(_, _, _)
PlacesKept(s, shapes, i) ==
    IF i > Len(s) THEN <<>>
    ELSE (IF shapes[i][1] <= 29 THEN <<s[i]>> ELSE <<>>)
         \o PlacesKept(s, shapes, i + 1)

\* C19: the filter keeps a card exactly when its question has at most 29
\* whitespace-delimited tokens (29 kept, 30 and more dropped), and the
\* cards kept stand in the parse order.
C19_FilterKeepsUpTo29 ==
    probe.op = "filter" =>
        probe.result = PlacesKept(probe.base, probe.before, 1)

\* C19 witness: the filter was given a card of 30 words followed by a card
\* of 29 words, and kept the second one only.
C19_Witness ==
    /\ probe.op = "filter"
    /\ Len(probe.before) = 2
    /\ probe.before[1][1] = 30
    /\ probe.before[2][1] = 29
    /\ probe.result = <<probe.base[2]>>

\* "Q: A? A: B Q: C? A: D"
ExampleText ==
    <<"Q", ":", " ", "A", "?", " ", "A", ":", " ", "B", " ",
      "Q", ":", " ", "C", "?", " ", "A", ":", " ", "D">>

\* C20: the text made of k >= 1 units "Q: q_i A: a_i" parses to exactly k
\* cards, in the order of the units, whose question and answer are q_i and
\* a_i without the whitespace around them; "Q: A? A: B Q: C? A: D" parses
\* to [(A?, B), (C?, D)].
C20_ParseUnits ==
    probe.op = "parse" =>
        /\ probe.result =
              [i \in 1..Len(probe.before) |->
                  [question |-> probe.before[i][1][2],
                   answer   |-> probe.before[i][2][2]]]
        /\ probe.base = ExampleText =>
              probe.result = <<[question |-> <<"A", "?">>,
                                answer |-> <<"B">>],
                               [question |-> <<"C", "?">>,
                                answer |-> <<"D">>]>>

\* C20 witness: the text of the example was parsed into its two cards.
C20_Witness ==
    /\ probe.op = "parse"
    /\ probe.base = ExampleText
    /\ Len(probe.result) = 2
    /\ probe.result[2].question = <<"C", "?">>
    /\ probe.result[2].answer = <<"D">>

\* C21: a successful initial generation for the subject text s on an empty
\* store leaves a store of exactly one set, whose subject is s as it was
\* typed and whose cards are the filtered cards.
C21_FirstSetKeepsName ==
    [][(/\ obs'.op = "initOK"
        /\ Len(calls) = 1
        /\ getStoredSets(item) = <<>>) =>
          getStoredSets(item') =
              <<[subject |-> calls[1].subject, flashcards |-> obs'.batch]>>]_vars

\* C21 witness: an initial generation for "M" has succeeded on a store
\* that sets had been deleted from, and the store holds the one set "M".
C21_Witness ==
    /\ obs.op = "initOK"
    /\ Len(getStoredSets(item)) = 1
    /\ getStoredSets(item)[1].subject = Math
    /\ subject = Math
    /\ ~obs.afterSelect

\* C22: in every reachable state every set of the persistent store has a
\* non-empty card sequence.
C22_StoredCardsNonEmpty ==
    \A i \in 1..Len(getStoredSets(item)) :
        getStoredSets(item)[i].flashcards # <<>>

\* C22 witness: a continuation that came back after the user had left its
\* session has written the stored set, and the set holds cards.
C22_Witness ==
    /\ obs.op = "contOK"
    /\ obs.saves = 1
    /\ showGenerator
    /\ getStoredSets(item) # <<>>
    /\ getStoredSets(item)[1].flashcards # <<>>

CallsUpdate(call) ==
    /\ call.activeSubject # Null
    /\ call.activeSubject # Undefined
    /\ call.activeSubject # <<>>

\* C24: update(subject, cards) replaces the cards of the set whose subject
\* is subject and leaves every other set as it is; when no set has the
\* subject the store is left exactly as it was and no error is raised.
C24_UpdateOneSet ==
    [][(obs'.op = "contOK" /\ Len(calls) = 1 /\ CallsUpdate(calls[1])) =>
          LET before == getStoredSets(item)
              after  == getStoredSets(item')
              subj   == calls[1].activeSubject
          IN  /\ Len(after) = Len(before)
              /\ \A i \in 1..Len(before) :
                    IF before[i].subject = subj
                    THEN after[i] = [subject |-> subj,
                                     flashcards |-> flashcards']
                    ELSE after[i] = before[i]
              /\ ~HasSet(item, subj) => item' = item
              /\ error' = error]_vars

\* C24 witness: a continuation has updated the second of two stored sets
\* with cards that the first does not hold.
C24_Witness ==
    /\ obs.op = "contOK"
    /\ obs.saves = 1
    /\ Len(getStoredSets(item)) = 2
    /\ getStoredSets(item)[2].flashcards = flashcards
    /\ getStoredSets(item)[1].flashcards # flashcards
    /\ error = NoError

\* C25: remove(subject) leaves a store without any set of that subject, in
\* which every other set is as it was; when no set has the subject, the
\* sets of the store are the sets it had.
C25_RemoveOneSubject ==
    [][probe'.op = "delete" =>
          LET before == getStoredSets(item)
              after  == getStoredSets(item')
              subj   == probe'.base
              others == {i \in 1..Len(before) : before[i].subject # subj}
          IN  /\ \A j \in 1..Len(after) : after[j].subject # subj
              /\ Len(after) = Cardinality(others)
              /\ \A i \in others : \E j \in 1..Len(after) :
                    after[j] = before[i]
              /\ others = 1..Len(before) => after = before]_vars

\* C25 witness: the second of three stored sets was removed; the first and
\* the third are left.
C25_Witness ==
    /\ probe.op = "delete"
    /\ Len(probe.before) = 3
    /\ probe.base = probe.before[2]
    /\ SubjectsOf(getStoredSets(item)) = <<probe.before[1], probe.before[3]>>

\* C26: toggleReveal flips revealed and changes nothing else: currentIndex,
\* switching, the cards and the store stay, nothing is left for the
\* switching effect to do, and so a second toggle brings the first state
\* back.
C26_FlipOnlyFlips ==
    [][obs'.op = "flip" =>
          /\ showAnswer' = ~showAnswer
          /\ UNCHANGED <<current, switching, lastCurrent, timeout,
                         flashcards, item, storedSets, subject,
                         activeSubject, showGenerator, loading, addingMore,
                         error, crashed>>
          /\ EffectsSettled']_vars

\* C26 witness: the answer was shown and has been flipped back while
\* switching was true.
C26_Witness ==
    /\ obs.op = "flip"
    /\ obs.shown
    /\ ~showAnswer
    /\ switching
    /\ ~crashed

\* C27: in every state in which the entry view is shown the session is
\* discarded: its cards are empty, activeSubject is absent and currentIndex
\* is 0, also after a continuation that was in flight at the return has
\* completed.
C27_EntryViewHasNoSession ==
    showGenerator =>
        /\ flashcards = <<>>
        /\ activeSubject = Null
        /\ current = 0

\* C28: whenever the browsing view is shown with activeSubject = S and no
\* generation call is in flight, the session's cards are the cards stored
\* for S.
C28_SessionIsStored ==
    (BrowsingView /\ activeSubject # Null /\ calls = <<>> /\ ~loading) =>
        /\ HasSet(item, activeSubject)
        /\ StoredCards(item, activeSubject) = flashcards

\* C29: the list of sets shown in the entry view is, in content and order,
\* the sequence held in the persistent store.
C29_ListIsStore == storedSets = getStoredSets(item)

\* C29 witness: the component is mounted on a store of two sets and lists
\* both, in the order of the store.
C29_Witness ==
    /\ obs.op = "mount"
    /\ Len(getStoredSets(item)) = 2
    /\ storedSets = getStoredSets(item)
    /\ storedSets[1].subject # storedSets[2].subject

\* C30: whenever the browsing view is shown, activeSubject is present and
\* names a set of the persistent store.
C30_ActiveSetIsStored ==
    BrowsingView =>
        /\ activeSubject # Null
        /\ activeSubject # Undefined
        /\ HasSet(item, activeSubject)

\* C30 witness: a set is browsed while the call that was in flight when it
\* was selected has failed, and a second set is stored besides.
C30_Witness ==
    /\ BrowsingView
    /\ obs.op = "fail"
    /\ obs.afterSelect
    /\ Len(getStoredSets(item)) = 2
    /\ HasSet(item, activeSubject)

====
